---- MODULE Spec2Model ----
(***************************************************************************)
(* Model of ialauncher's Game (src/ialauncher/game.py): the metadata       *)
(* record (metadata.ini through RawConfigParser), payload acquisition      *)
(* (download_files / extract_file) and the two-mode session (start).       *)
(*                                                                         *)
(* Text is a sequence of one-character strings.  An optional Python value  *)
(* is a record [some, val]: None is [some |-> FALSE, val |-> <<>>], so     *)
(* Python truthiness of a str/list/None is  val # <<>>.                    *)
(***************************************************************************)
EXTENDS Integers, Sequences, FiniteSets, TLC

\* ------------------------------------------------------------------ bounds
MaxStarts == 2          \* start() calls in one behaviour
MaxSets   == 2          \* attribute assignments in one metadata behaviour
MaxUrls   == 2          \* entries of the url option
MaxSaves  == 2          \* write_metadata calls in one metadata behaviour

\* ---------------------------------------------------------- Python values
None == [some |-> FALSE, val |-> <<>>]
Some(v) == [some |-> TRUE, val |-> v]
Truthy(f) == f.val # <<>>

\* ----------------------------------------------------------- str helpers
NL == "\n"
TAB == "\t"
SP == " "
Whitespace == {SP, TAB, NL}

RECURSIVE LStrip(_)
LStrip(s) ==
  IF s = <<>> THEN s
  ELSE IF Head(s) \in Whitespace THEN LStrip(Tail(s)) ELSE s

RECURSIVE RStrip(_)
RStrip(s) ==
  IF s = <<>> THEN s
  ELSE IF s[Len(s)] \in Whitespace THEN RStrip(SubSeq(s, 1, Len(s) - 1)) ELSE s

Strip(s) == LStrip(RStrip(s))

StartsWith(s, p) == Len(s) >= Len(p) /\ SubSeq(s, 1, Len(p)) = p
EndsWith(s, p) == Len(s) >= Len(p) /\ SubSeq(s, Len(s) - Len(p) + 1, Len(s)) = p

\* str.split(sep) for a one-character separator: always at least one piece
RECURSIVE SplitOn(_, _)
SplitOn(s, sep) ==
  IF \A i \in 1..Len(s) : s[i] # sep THEN <<s>>
  ELSE LET i == CHOOSE k \in 1..Len(s) :
                  s[k] = sep /\ \A j \in 1..(k - 1) : s[j] # sep
       IN  <<SubSeq(s, 1, i - 1)>> \o SplitOn(SubSeq(s, i + 1, Len(s)), sep)

\* str.split() with no argument: runs of whitespace separate, no empty pieces
RECURSIVE SplitWS(_)
SplitWS(s) ==
  LET t == LStrip(s) IN
  IF t = <<>> THEN <<>>
  ELSE IF \A i \in 1..Len(t) : t[i] \notin Whitespace THEN <<t>>
  ELSE LET i == CHOOSE k \in 1..Len(t) :
                  t[k] \in Whitespace /\ \A j \in 1..(k - 1) : t[j] \notin Whitespace
       IN  <<SubSeq(t, 1, i - 1)>> \o SplitWS(SubSeq(t, i + 1, Len(t)))

\* sep.join(parts)
RECURSIVE Join(_, _)
Join(sep, parts) ==
  IF parts = <<>> THEN <<>>
  ELSE IF Len(parts) = 1 THEN parts[1]
  ELSE parts[1] \o sep \o Join(sep, Tail(parts))

\* str.replace('\n', '\n\t')
RECURSIVE IndentContinuation(_)
IndentContinuation(s) ==
  IF s = <<>> THEN s
  ELSE IF Head(s) = NL THEN <<NL, TAB>> \o IndentContinuation(Tail(s))
  ELSE <<Head(s)>> \o IndentContinuation(Tail(s))

\* --------------------------------------------- metadata.ini (configparser)
Keys == {"title", "year", "emulator_start", "dosbox_conf", "url"}

CommentPrefixes == {"#", ";"}

\* RawConfigParser.write: what follows "key = " in the file
WriteValue(v) == IndentContinuation(v)

\* one continuation line of a value as RawConfigParser._read treats it
IsCommentLine(line) == Strip(line) # <<>> /\ Head(Strip(line)) \in CommentPrefixes

RECURSIVE ReadContinuation(_)
ReadContinuation(lines) ==
  IF lines = <<>> THEN <<>>
  ELSE IF IsCommentLine(Head(lines)) THEN ReadContinuation(Tail(lines))
  ELSE <<Strip(Head(lines))>> \o ReadContinuation(Tail(lines))

\* RawConfigParser._read + _join_multiline_values on one option's text
ReadValue(stored) ==
  LET lines == SplitOn(stored, NL)
  IN  RStrip(Join(<<NL>>, <<Strip(Head(lines))>> \o ReadContinuation(Tail(lines))))

NoKeys == [k \in Keys |-> None]

\* the file metadata.ini: absent, or present with or without [metadata]
NoDoc == [exists |-> FALSE, section |-> FALSE, keys |-> NoKeys]
DocOf(keys) == [exists |-> TRUE, section |-> TRUE, keys |-> keys]

\* RawConfigParser.read: the parser's options of section metadata
ReadDoc(d) ==
  [k \in Keys |-> IF d.keys[k].some THEN Some(ReadValue(d.keys[k].val)) ELSE None]

\* RawConfigParser.write of the parser state
WriteDoc(cfg) ==
  DocOf([k \in Keys |-> IF cfg[k].some THEN Some(WriteValue(cfg[k].val)) ELSE None])

\* ------------------------------------------------------------- the state
VARIABLES
  doc,             \* metadata.ini in self.path
  game,            \* outcome of Game(path): "none", "ok" or "KeyError"
  config,          \* self.config: the options of section metadata
  title, year, emulator_start, dosbox_conf, url,   \* the attributes of self
  gamedir,         \* self.gamedir: [exists, files], files maps name to contents
  cache,           \* regular files in self.path: name |-> resource
  pc,              \* "idle", "waiting" (in child_process.wait()), "exited"
  autorun,         \* the local variable autorun at the latest Popen (lines 96-101)
  launches,        \* the Popen calls so far, oldest first
  log,             \* urlretrieve / extract_file / shutil.copy calls, oldest first
  saves,           \* number of write_metadata calls
  raised,          \* exception that ended the last start(), or "none"
  starts,          \* number of start() calls
  cwd,             \* the process's working directory: "path", "gamedir" or "other"
  sets,            \* number of attribute assignments by the caller
  entry,           \* the call and the record as they were when start() was entered
  last,            \* the operation that produced this state
  host,            \* what the machine offers to get_dosbox_path
  locator,         \* get_dosbox_path: [pc, tried, result, printed, inException]
  hist             \* [loaded: the attributes as Game(path) read them,
                   \*  edited: the user changed dosbox.bat since then]

attrs == <<title, year, emulator_start, dosbox_conf, url>>
meta == <<doc, game, config>>
disk == <<gamedir, cache>>
sess == <<pc, autorun, launches, log, raised, starts, cwd, entry>>
platform == <<host, locator>>
vars == <<meta, attrs, disk, sess, saves, sets, last, platform, hist>>

\* --------------------------------------------------------- names and texts
BatName == <<"d","o","s","b","o","x",".","b","a","t">>
ConfName == <<"d","o","s","b","o","x",".","c","o","n","f">>
Preamble == <<"@","e","c","h","o"," ","o","f","f",NL,"c","l","s",NL>>
Dot == <<".">>

\* ------------------------------------------------------- Game.__init__
\* c['metadata'] raises KeyError when the parser has no such section
LoadRaises(d) == ~d.section

AttrsOf(cfg) ==
  [title          |-> cfg["title"],
   year           |-> cfg["year"],
   emulator_start |-> cfg["emulator_start"],
   dosbox_conf    |-> cfg["dosbox_conf"],
   url            |-> IF Truthy(cfg["url"]) THEN Some(SplitWS(cfg["url"].val))
                      ELSE cfg["url"]]

CurrentAttrs ==
  [title |-> title, year |-> year, emulator_start |-> emulator_start,
   dosbox_conf |-> dosbox_conf, url |-> url]

\* ------------------------------------------------ Game.write_metadata
\* variant: the URLs are written one after the other without a separator
SavedConfig_UrlsUnseparated(cfg, a) ==
  [k \in Keys |->
     CASE k = "title"          -> IF Truthy(a.title) THEN a.title ELSE cfg[k]
       [] k = "year"           -> IF Truthy(a.year) THEN a.year ELSE cfg[k]
       [] k = "url"            -> IF Truthy(a.url) THEN Some(Join(<<>>, a.url.val))
                                  ELSE cfg[k]
       [] k = "emulator_start" -> IF Truthy(a.emulator_start) THEN a.emulator_start
                                  ELSE cfg[k]
       [] k = "dosbox_conf"    -> IF Truthy(a.dosbox_conf) THEN a.dosbox_conf
                                  ELSE cfg[k]]

\* lines 131-144: the keys write_metadata sets
SavedConfig(cfg, a) ==
  [k \in Keys |->
     CASE k = "title"          -> IF Truthy(a.title) THEN a.title ELSE cfg[k]
       [] k = "year"           -> IF Truthy(a.year) THEN a.year ELSE cfg[k]
       [] k = "url"            -> IF Truthy(a.url) THEN Some(Join(<<NL>>, a.url.val))
                                  ELSE cfg[k]
       [] k = "emulator_start" -> IF Truthy(a.emulator_start) THEN a.emulator_start
                                  ELSE cfg[k]
       [] k = "dosbox_conf"    -> IF Truthy(a.dosbox_conf) THEN a.dosbox_conf
                                  ELSE cfg[k]]

\* ------------------------------------------------- files and directories
NoFiles == [n \in {} |-> <<>>]
Put(files, name, text) ==
  [n \in DOMAIN files \cup {name} |-> IF n = name THEN text ELSE files[n]]
Overlay(files, more) ==
  [n \in DOMAIN files \cup DOMAIN more |-> IF n \in DOMAIN more THEN more[n] ELSE files[n]]
Remove(files, name) == [n \in DOMAIN files \ {name} |-> files[n]]

NoDir == [exists |-> FALSE, files |-> NoFiles]
Dir(files) == [exists |-> TRUE, files |-> files]

\* os.path.isfile(name) with the payload directory as working directory
IsFile(dir, name) == dir.exists /\ name \in DOMAIN dir.files

\* ------------------------------------------------------ what the URLs serve
\* a resource is the bytes of one remote file: data, and for a well-formed
\* zip archive its members
Plain(data) == [zip |-> FALSE, data |-> data, members |-> NoFiles]
Archive(data, members) == [zip |-> TRUE, data |-> data, members |-> members]

ExeName == <<"F">>
UrlA == <<"x","/","a",".","z","i","p">>
UrlB == <<"x","/","B",".","Z","i","p">>
UrlD == <<"x","/","D",".","E","X","E">>
UrlP == <<"x","/","c","%","2","E","p","l","a","y">>
UrlE == <<"x","/","e",".","Z","I","P">>
UrlN == <<"x","/","n",".","z","i","p">>
Urls == {UrlA, UrlB, UrlD, UrlP, UrlE, UrlN}

Remote(u) ==
  CASE u = UrlA -> Archive(<<"a">>, [n \in {ExeName, ConfName} |->
                                       IF n = ExeName THEN <<"g">> ELSE <<"z">>])
    [] u = UrlB -> Archive(<<"b">>, [n \in {ExeName} |-> <<"h">>])
    [] u = UrlD -> Plain(<<"d">>)
    [] u = UrlP -> Archive(<<"p">>, [n \in {ConfName} |-> <<"y">>])
    [] u = UrlE -> Archive(<<"e">>, NoFiles)
    [] u = UrlN -> Plain(<<"n">>)

\* --------------------------------------------------- Game.download_files
\* urllib.parse.unquote, for the escapes the URLs above use
HexPairs == {<<"2","E">>, <<"2","0">>}
HexChar(pair) == IF pair = <<"2","E">> THEN "." ELSE SP

RECURSIVE unquote(_)
unquote(s) ==
  IF s = <<>> THEN s
  ELSE IF Head(s) = "%" /\ Len(s) >= 3 /\ SubSeq(s, 2, 3) \in HexPairs
       THEN <<HexChar(SubSeq(s, 2, 3))>> \o unquote(SubSeq(s, 4, Len(s)))
  ELSE <<Head(s)>> \o unquote(Tail(s))

\* unquote(u.split('/')[-1])
FileNameOf(u) == LET parts == SplitOn(u, "/") IN unquote(parts[Len(parts)])

\* filename.endswith('zip') or filename.endswith('ZIP') or filename.endswith('play')
IsArchiveName(filename) ==
  \/ EndsWith(filename, <<"z","i","p">>)
  \/ EndsWith(filename, <<"Z","I","P">>)
  \/ EndsWith(filename, <<"p","l","a","y">>)

Event(op, name) == [op |-> op, name |-> name]

\* Game.extract_file: st is [gamedir, cache, log, raised, cwd]
extract_file(st, zipfile) ==
  LET res == st.cache[zipfile]
      logged == [st EXCEPT !.log = Append(@, Event("extract", zipfile))]
      all == Overlay(st.gamedir.files, res.members)
      extracted == [exists |-> st.gamedir.exists \/ DOMAIN res.members # {},
                    files |-> all]
  IN  IF ~res.zip THEN [logged EXCEPT !.raised = "BadZipFile"]
      ELSE [logged EXCEPT !.gamedir =
              IF IsFile(extracted, ConfName)
              THEN [extracted EXCEPT !.files = Remove(@, ConfName)]
              ELSE extracted]

\* shutil.copy(filename, self.gamedir) after os.makedirs(self.gamedir)
CopyFile(st, filename) ==
  [st EXCEPT !.log = Append(@, Event("copy", filename)),
             !.gamedir = Dir(Put(@.files, filename, st.cache[filename].data))]

\* variant: a failed urlretrieve is attempted a second time before raising
DownloadOne_Retries(st, u, fails) ==
  LET filename == FileNameOf(u)
      have == filename \in DOMAIN st.cache
      got == IF have THEN st
             ELSE [st EXCEPT !.log = Append(@, Event("fetch", u)),
                             !.cache = Put(@, filename, Remote(u))]
  IN  IF ~have /\ fails
      THEN [st EXCEPT !.log = @ \o <<Event("fetch", u), Event("fetch", u)>>,
                      !.raised = "FetchError"]
      ELSE IF IsArchiveName(filename) THEN extract_file(got, filename)
      ELSE CopyFile(got, filename)

\* one iteration of the loop; fails says whether urlretrieve, if called, raises
DownloadOne(st, u, fails) ==
  LET filename == FileNameOf(u)
      have == filename \in DOMAIN st.cache
      got == IF have THEN st
             ELSE [st EXCEPT !.log = Append(@, Event("fetch", u)),
                             !.cache = Put(@, filename, Remote(u))]
  IN  IF ~have /\ fails
      THEN [st EXCEPT !.log = Append(@, Event("fetch", u)), !.raised = "FetchError"]
      ELSE IF IsArchiveName(filename) THEN extract_file(got, filename)
      ELSE CopyFile(got, filename)

RECURSIVE DownloadFrom(_, _, _, _)
DownloadFrom(urls, i, st, failAt) ==
  IF i > Len(urls) \/ st.raised # "none" THEN st
  ELSE DownloadFrom(urls, i + 1, DownloadOne(st, urls[i], failAt = i), failAt)

\* failAt is the iteration whose urlretrieve would raise (0: none does)
download_files(st, u, failAt) ==
  LET inPath == [st EXCEPT !.cwd = "path"]
  IN  IF ~u.some THEN [inPath EXCEPT !.raised = "TypeError"]
      ELSE DownloadFrom(u.val, 1, inPath, failAt)

\* variant: the payload is fetched on every start
EnsurePayload_Always(st, u, failAt) == download_files(st, u, failAt)

\* lines 59-60 of start: the payload is fetched only when the directory is absent
EnsurePayload(st, u, failAt) ==
  IF ~st.gamedir.exists THEN download_files(st, u, failAt) ELSE st

\* ------------------------------------------------------------ Game.start
Flag(s) == [flag |-> s, path |-> <<>>]
Path(p) == [flag |-> "", path |-> p]

\* variant: the arguments are passed but the file is not written
ConfWritten_Skips(dir) == dir

\* lines 67-70: the config file and the arguments that load it
ConfWritten(dir) ==
  IF Truthy(dosbox_conf) THEN [dir EXCEPT !.files = Put(@, ConfName, dosbox_conf.val)]
  ELSE dir
ConfArgs ==
  IF Truthy(dosbox_conf) THEN <<Flag("-userconf"), Flag("-conf"), Path(ConfName)>>
  ELSE <<>>

\* line 74: emulator_start names a regular file of the payload directory
RunsExecutable(dir, req) == Truthy(emulator_start) /\ req /\ IsFile(dir, emulator_start.val)

\* variant: an autorun start writes the script even when emulator_start names a file
BatWritten_AlwaysScript(dir, req) ==
  IF Truthy(emulator_start)
  THEN IF req
       THEN [dir EXCEPT !.files = Put(@, BatName, Preamble \o emulator_start.val)]
       ELSE [dir EXCEPT !.files = Put(@, BatName, emulator_start.val)]
  ELSE IF ~IsFile(dir, BatName) THEN [dir EXCEPT !.files = Put(@, BatName, <<NL>>)]
       ELSE dir

\* lines 72-94: the command script
BatWritten(dir, req) ==
  IF Truthy(emulator_start)
  THEN IF req
       THEN IF IsFile(dir, emulator_start.val) THEN dir
            ELSE [dir EXCEPT !.files = Put(@, BatName, Preamble \o emulator_start.val)]
       ELSE [dir EXCEPT !.files = Put(@, BatName, emulator_start.val)]
  ELSE IF ~IsFile(dir, BatName) THEN [dir EXCEPT !.files = Put(@, BatName, <<NL>>)]
       ELSE dir

\* variant: the else branch does not reset autorun
FinalAutorun_AsRequested(req) == req

\* lines 72-91: the local variable autorun after the branch
FinalAutorun(req) == IF Truthy(emulator_start) THEN req ELSE FALSE

\* variant: an interactive start of a title with a boot command runs the script
RunTarget_ScriptWhenInteractive(dir, req) ==
  IF FinalAutorun(req)
  THEN IF RunsExecutable(dir, req) THEN emulator_start.val ELSE BatName
  ELSE IF Truthy(emulator_start) THEN BatName ELSE Dot

\* lines 65, 78, 81, 96-99: dosbox_run
RunTarget(dir, req) ==
  IF FinalAutorun(req)
  THEN IF RunsExecutable(dir, req) THEN emulator_start.val ELSE BatName
  ELSE Dot

\* variant: -exit is appended whatever autorun is
DosboxArgs_AlwaysExit(req) == <<Flag("-fullscreen")>> \o ConfArgs \o <<Flag("-exit")>>

\* lines 64, 70, 96-97: dosbox_args
DosboxArgs(req) ==
  <<Flag("-fullscreen")>> \o ConfArgs
     \o (IF FinalAutorun(req) THEN <<Flag("-exit")>> ELSE <<>>)

\* line 61: os.chdir(self.gamedir)
ChangedDir(st) == [st EXCEPT !.cwd = "gamedir"]

\* variant: start() waits for the child in both modes
AfterLaunch_AlwaysWaits(req) == "waiting"

\* lines 103-104: start() blocks in child_process.wait() unless autorun
AfterLaunch(req) == IF FinalAutorun(req) THEN "idle" ELSE "waiting"

\* lines 59-101 and, when autorun, the return: everything start() does up to
\* the point where it returns or blocks in child_process.wait()
StartResult(req, failAt) ==
  LET st0 == [gamedir |-> gamedir, cache |-> cache, log |-> log,
              raised |-> "none", cwd |-> cwd]
      st1 == EnsurePayload(st0, url, failAt)
      st2 == ChangedDir(st1)
      conf == ConfWritten(st2.gamedir)
      bat == BatWritten(conf, req)
      launch == [exe |-> locator.result,
                 argv |-> <<Path(RunTarget(conf, req))>> \o DosboxArgs(req),
                 cwd |-> st2.cwd,
                 files |-> bat.files]
      stopped == [gamedir |-> st1.gamedir, cache |-> st1.cache, log |-> st1.log,
                  cwd |-> st1.cwd, raised |-> st1.raised,
                  autorun |-> autorun, launches |-> launches, pc |-> "idle"]
  IN  IF st1.raised # "none" THEN stopped
      ELSE IF ~st1.gamedir.exists THEN [stopped EXCEPT !.raised = "FileNotFoundError"]
      ELSE [gamedir |-> bat, cache |-> st2.cache, log |-> st2.log,
            cwd |-> st2.cwd, raised |-> "none",
            autorun |-> FinalAutorun(req),
            launches |-> Append(launches, launch),
            pc |-> AfterLaunch(req)]

FailPoints == 0..(IF url.some THEN Len(url.val) ELSE 0)

EntryOf(req) ==
  [req |-> req, attrs |-> CurrentAttrs, doc |-> doc, config |-> config,
   gamedir |-> gamedir, log |-> log, saves |-> saves]

\* the effects of start(autorun=req) on the program's own state
StartBody(req) ==
  /\ pc = "idle" /\ game = "ok" /\ starts < MaxStarts
  /\ locator.pc = "returned"
  /\ \E failAt \in FailPoints :
       LET r == StartResult(req, failAt) IN
       /\ gamedir' = r.gamedir /\ cache' = r.cache /\ log' = r.log
       /\ cwd' = r.cwd /\ raised' = r.raised /\ autorun' = r.autorun
       /\ launches' = r.launches /\ pc' = r.pc
  /\ starts' = starts + 1
  /\ UNCHANGED <<meta, attrs, saves, sets, platform, hist>>

Start(req) ==
  /\ StartBody(req)
  /\ entry' = EntryOf(req)
  /\ last' = "start"

StartAutorun == Start(TRUE)
StartInteractive == Start(FALSE)

\* ------------------------------------- the user inside the emulator
ScriptTexts ==
  { <<>>,
    <<"F", NL>>,
    <<"F", NL, "B", NL>> }

UserWritesScript ==
  /\ pc = "waiting"
  /\ \E t \in ScriptTexts :
       /\ ~(IsFile(gamedir, BatName) /\ gamedir.files[BatName] = t)
       /\ gamedir' = [gamedir EXCEPT !.files = Put(@, BatName, t)]
  /\ last' = "edit"
  /\ hist' = [hist EXCEPT !.edited = TRUE]
  /\ UNCHANGED <<meta, attrs, cache, sess, saves, sets, platform>>

UserDeletesScript ==
  /\ pc = "waiting"
  /\ IsFile(gamedir, BatName)
  /\ gamedir' = [gamedir EXCEPT !.files = Remove(@, BatName)]
  /\ last' = "delete"
  /\ hist' = [hist EXCEPT !.edited = TRUE]
  /\ UNCHANGED <<meta, attrs, cache, sess, saves, sets, platform>>

\* the child process ends and child_process.wait() returns
EmulatorExits ==
  /\ pc = "waiting"
  /\ pc' = "exited"
  /\ last' = "exit"
  /\ UNCHANGED <<meta, attrs, disk, autorun, launches, log, raised, starts, cwd,
                 entry, saves, sets, platform, hist>>

\* variant: the script is read back without waiting for the child to end
Capture_WhileRunning ==
  /\ pc = "waiting"
  /\ pc' = "idle"
  /\ last' = "capture"
  /\ IF IsFile(gamedir, BatName)
     THEN /\ emulator_start' = Some(gamedir.files[BatName])
          /\ IF gamedir.files[BatName] # <<>>
             THEN /\ config' = SavedConfig(config,
                                 [CurrentAttrs EXCEPT !.emulator_start = emulator_start'])
                  /\ doc' = WriteDoc(config')
                  /\ saves' = saves + 1
             ELSE UNCHANGED <<config, doc, saves>>
     ELSE UNCHANGED <<emulator_start, config, doc, saves>>
  /\ UNCHANGED <<game, title, year, dosbox_conf, url, disk, autorun, launches, log,
                 raised, starts, cwd, entry, sets, platform, hist>>

\* lines 105-109, then the return of start()
Capture ==
  /\ pc = "exited"
  /\ pc' = "idle"
  /\ last' = "capture"
  /\ IF IsFile(gamedir, BatName)
     THEN /\ emulator_start' = Some(gamedir.files[BatName])
          /\ IF gamedir.files[BatName] # <<>>
             THEN /\ config' = SavedConfig(config,
                                 [CurrentAttrs EXCEPT !.emulator_start = emulator_start'])
                  /\ doc' = WriteDoc(config')
                  /\ saves' = saves + 1
             ELSE UNCHANGED <<config, doc, saves>>
     ELSE UNCHANGED <<emulator_start, config, doc, saves>>
  /\ UNCHANGED <<game, title, year, dosbox_conf, url, disk, autorun, launches, log,
                 raised, starts, cwd, entry, sets, platform, hist>>

\* ------------------------------------------------------ initial states
BootCommands == {None, Some(ExeName), Some(<<"G", SP, "1">>)}
ConfTexts == {None, Some(<<"c">>)}
UrlLists == UNION {[1..n -> Urls] : n \in 0..MaxUrls}
InitDirs ==
  { NoDir,
    Dir(NoFiles),
    Dir([n \in {ExeName, BatName} |-> IF n = ExeName THEN <<"g">> ELSE Preamble \o ExeName]) }

\* ------------------------------------------- dosbox.py: get_dosbox_path
\* what the machine offers: which candidates run with --version (onPath,
\* macApp, openA, winExe), whether ProgramFiles(x86) is set and the glob finds
\* an executable, and whether the process has a stdout and a stdin
Hosts ==
  [onPath : BOOLEAN, macApp : BOOLEAN, openA : BOOLEAN,
   programFiles : BOOLEAN, globbed : BOOLEAN, winExe : BOOLEAN,
   stdout : BOOLEAN, stdin : BOOLEAN]

LinuxHost ==
  [onPath |-> TRUE, macApp |-> FALSE, openA |-> FALSE,
   programFiles |-> FALSE, globbed |-> FALSE, winExe |-> FALSE,
   stdout |-> TRUE, stdin |-> TRUE]

NotLocated ==
  [pc |-> "dosbox", tried |-> <<>>, result |-> "", printed |-> FALSE,
   inException |-> FALSE]

\* get_dosbox_path() on LinuxHost: line 16 returns
Located ==
  [pc |-> "returned", tried |-> <<"dosbox">>, result |-> "dosbox",
   printed |-> FALSE, inException |-> FALSE]

NoEntry ==
  [req |-> FALSE, attrs |-> CurrentAttrs, doc |-> doc, config |-> config,
   gamedir |-> gamedir, log |-> log, saves |-> saves]

InitSession ==
  /\ cache = NoFiles
  /\ pc = "idle" /\ autorun = FALSE /\ launches = <<>> /\ log = <<>>
  /\ raised = "none" /\ starts = 0 /\ cwd = "other"
  /\ saves = 0 /\ sets = 0
  /\ entry = NoEntry
  /\ last = "init"
  /\ host = LinuxHost
  /\ locator = Located
  /\ hist = [loaded |-> CurrentAttrs, edited |-> FALSE]

\* a Game constructed from a metadata.ini that has the section
Init ==
  /\ \E es \in BootCommands, dc \in ConfTexts, ul \in UrlLists :
       /\ doc = WriteDoc([k \in Keys |->
                   CASE k = "title" -> Some(<<"T">>)
                     [] k = "year" -> None
                     [] k = "emulator_start" -> es
                     [] k = "dosbox_conf" -> dc
                     [] k = "url" -> IF ul = <<>> THEN None ELSE Some(Join(<<NL>>, ul))])
  /\ game = "ok"
  /\ config = ReadDoc(doc)
  /\ title = AttrsOf(config).title
  /\ year = AttrsOf(config).year
  /\ emulator_start = AttrsOf(config).emulator_start
  /\ dosbox_conf = AttrsOf(config).dosbox_conf
  /\ url = AttrsOf(config).url
  /\ gamedir \in InitDirs
  /\ InitSession

Next ==
  \/ StartAutorun
  \/ StartInteractive
  \/ UserWritesScript
  \/ UserDeletesScript
  \/ EmulatorExits
  \/ Capture

Spec == Init /\ [][Next]_vars

\* --------------------------------- the metadata record on its own
\* Game(path): a fresh record read from metadata.ini
Construct ==
  /\ pc = "idle"
  /\ locator.pc = "returned"
  /\ last # "construct"
  /\ IF LoadRaises(doc)
     THEN /\ game' = "KeyError"
          /\ UNCHANGED <<config, attrs, hist>>
     ELSE /\ game' = "ok"
          /\ config' = ReadDoc(doc)
          /\ title' = AttrsOf(config').title
          /\ year' = AttrsOf(config').year
          /\ emulator_start' = AttrsOf(config').emulator_start
          /\ dosbox_conf' = AttrsOf(config').dosbox_conf
          /\ url' = AttrsOf(config').url
          /\ hist' = [loaded |-> AttrsOf(config'), edited |-> FALSE]
  /\ last' = "construct"
  /\ UNCHANGED <<doc, disk, sess, saves, sets, platform>>

\* values a caller assigns to the attributes
AttrNames == {"title", "year", "emulator_start", "dosbox_conf", "url"}
MetaUrls == {UrlA, UrlD}
AttrValues(name) ==
  CASE name = "title" -> {<<"T">>}
    [] name = "year" -> {<<"1">>}
    [] name = "emulator_start" -> {ExeName, <<"F", NL>>, <<"F", NL, "#", "B">>}
    [] name = "dosbox_conf" -> {<<"c">>, <<"c", NL, SP, "k">>}
    [] name = "url" -> UNION {[1..n -> MetaUrls] : n \in 1..MaxUrls}

SetAttr ==
  /\ pc = "idle" /\ game = "ok" /\ sets < MaxSets
  /\ \E name \in AttrNames : \E v \in AttrValues(name) :
       /\ title' = IF name = "title" THEN Some(v) ELSE title
       /\ year' = IF name = "year" THEN Some(v) ELSE year
       /\ emulator_start' = IF name = "emulator_start" THEN Some(v) ELSE emulator_start
       /\ dosbox_conf' = IF name = "dosbox_conf" THEN Some(v) ELSE dosbox_conf
       /\ url' = IF name = "url" THEN Some(v) ELSE url
  /\ sets' = sets + 1
  /\ last' = "set"
  /\ UNCHANGED <<meta, disk, sess, saves, platform, hist>>

\* game.write_metadata() called by the owner of the record
Save ==
  /\ pc = "idle" /\ game = "ok" /\ saves < MaxSaves
  /\ config' = SavedConfig(config, CurrentAttrs)
  /\ doc' = WriteDoc(config')
  /\ saves' = saves + 1
  /\ last' = "save"
  /\ UNCHANGED <<game, attrs, disk, sess, sets, platform, hist>>

MetaDocs ==
  { NoDoc,
    [exists |-> TRUE, section |-> FALSE, keys |-> NoKeys],
    DocOf(NoKeys),
    DocOf([NoKeys EXCEPT !["title"] = Some(<<"T">>)]),
    DocOf([NoKeys EXCEPT !["emulator_start"] = Some(ExeName),
                         !["url"] = Some(UrlA \o <<NL, TAB>> \o UrlD)]) }

MetaInit ==
  /\ doc \in MetaDocs
  /\ game = "none"
  /\ config = NoKeys
  /\ title = None /\ year = None /\ emulator_start = None
  /\ dosbox_conf = None /\ url = None
  /\ gamedir = NoDir
  /\ InitSession

MetaNext ==
  \/ Construct
  \/ SetAttr
  \/ Save

MetaSpec == MetaInit /\ [][MetaNext]_vars

\* ================================================================ claims
ScriptAtExit == IF IsFile(gamedir, BatName) THEN Some(gamedir.files[BatName]) ELSE None
Persisted == AttrsOf(ReadDoc(doc))
LastLaunch == launches[Len(launches)]
Launched == last = "start" /\ raised = "none"

\* C1: after an interactive start in which the command script exists and is
\* non-empty when the emulator exits, emulator_start equals the script's exact
\* contents, write_metadata has been called, and metadata.ini read back holds
\* that same value.
C1_CaptureIsExactAndPersisted ==
  (last = "capture" /\ Truthy(ScriptAtExit))
    => /\ emulator_start = ScriptAtExit
       /\ saves = entry.saves + 1
       /\ Persisted.emulator_start = ScriptAtExit

\* C2: after an interactive start of a title with a boot command, in which the
\* command script is empty or absent when the emulator exits, emulator_start
\* and metadata.ini are what they were when start was entered and
\* write_metadata has not been called.
C2_EmptyScriptChangesNothing ==
  (last = "capture" /\ Truthy(entry.attrs.emulator_start) /\ ~Truthy(ScriptAtExit))
    => /\ emulator_start = entry.attrs.emulator_start
       /\ doc = entry.doc
       /\ saves = entry.saves

\* C3: for a title without boot command, every step start(autorun=True) can
\* take is a step start(autorun=False) can take and the other way round, and
\* the emulator is never given -exit.
C3_AutorunForcedOff ==
  [][ (~Truthy(emulator_start) /\ last' = "start")
        => /\ StartBody(TRUE) <=> StartBody(FALSE)
           /\ raised' = "none" =>
                /\ \A i \in DOMAIN launches'[Len(launches')].argv :
                      launches'[Len(launches')].argv[i] # Flag("-exit")
                /\ launches'[Len(launches')].argv[1] = Path(Dot)
                /\ pc' = "waiting" ]_vars

C3_Witness ==
  /\ Launched /\ entry.req /\ ~Truthy(entry.attrs.emulator_start)
  /\ pc = "waiting"

\* C4: a start that finds the payload directory present fetches no URL,
\* extracts no archive and copies no file, and leaves every file of the
\* directory other than the two files start itself writes as it was.
C4_ExistingPayloadUntouched ==
  [][ (gamedir.exists /\ last' = "start")
        => /\ log' = log
           /\ cache' = cache
           /\ gamedir'.exists
           /\ DOMAIN gamedir'.files \subseteq DOMAIN gamedir.files \cup {BatName, ConfName}
           /\ \A n \in DOMAIN gamedir.files \ {BatName, ConfName} :
                 IsFile(gamedir', n) /\ gamedir'.files[n] = gamedir.files[n] ]_vars

C4_Witness ==
  /\ last = "start" /\ starts = 2
  /\ entry.gamedir.exists /\ Truthy(entry.attrs.url)
  /\ ExeName \in DOMAIN entry.gamedir.files

\* C5: once write_metadata has run, a fresh Game read from metadata.ini has
\* title, year, emulator_start, dosbox_conf and url equal to the saved ones.
C5_SaveThenLoadRoundTrip ==
  (last = "save") => Persisted = CurrentAttrs

\* C6: Game(path) never raises for want of metadata: with metadata.ini
\* missing, or without the section or a key, construction succeeds and the
\* attribute of every missing key is None.
C6_LoadNeverFails ==
  (last = "construct")
    => /\ game = "ok"
       /\ \A k \in Keys : ~doc.keys[k].some => CurrentAttrs[k] = None

\* the final autorun of a call: autorun was requested and there is a boot command
FinalOf(e) == e.req /\ Truthy(e.attrs.emulator_start)

\* C7: emulator_start, the parser state and metadata.ini change only in the
\* capture step of an interactive start; a start whose final autorun is true
\* launches the emulator and returns at once, never reaching the wait or the
\* capture, with emulator_start and metadata.ini untouched and no save.
C7_AutorunNeverCaptures ==
  [][ /\ (emulator_start' # emulator_start \/ saves' # saves \/ doc' # doc
            \/ config' # config)
         => (last' = "capture" /\ pc = "exited" /\ ~FinalOf(entry))
      /\ (last' = "start" /\ raised' = "none" /\ FinalOf(entry'))
         => /\ pc' = "idle"
            /\ Len(launches') = Len(launches) + 1
            /\ emulator_start' = emulator_start /\ saves' = saves /\ doc' = doc
      /\ (pc' # "idle") => ~FinalOf(entry') ]_vars

C7_Witness ==
  /\ Launched /\ FinalOf(entry) /\ pc = "idle"
  /\ Len(launches) = 2 /\ saves = 1

\* C8: every launch passes [run target, -fullscreen, then -userconf -conf
\* dosbox.conf exactly when dosbox_conf is set, then -exit exactly when the
\* final autorun is true] with the payload directory as working directory;
\* the run target is "." exactly when the final autorun is false, and else
\* the generated dosbox.bat or the existing file emulator_start names.
C8_LaunchArguments ==
  Launched =>
    LET rt == LastLaunch.argv[1].path
        fin == FinalOf(entry)
    IN  /\ LastLaunch.argv =
             <<Path(rt), Flag("-fullscreen")>>
               \o (IF Truthy(dosbox_conf)
                   THEN <<Flag("-userconf"), Flag("-conf"), Path(ConfName)>> ELSE <<>>)
               \o (IF fin THEN <<Flag("-exit")>> ELSE <<>>)
        /\ LastLaunch.cwd = "gamedir"
        /\ (rt = Dot) <=> ~fin
        /\ fin => \/ /\ rt = BatName
                     /\ LastLaunch.files[BatName] = Preamble \o emulator_start.val
                  \/ /\ rt = emulator_start.val
                     /\ rt \in DOMAIN LastLaunch.files

C8_Witness ==
  /\ Launched /\ FinalOf(entry) /\ Truthy(dosbox_conf)
  /\ LastLaunch.argv[1] = Path(ExeName)
  /\ Len(LastLaunch.argv) = 6

\* str.lower() on the letters file names use
UpperCase == <<"A","B","C","D","E","F","G","H","I","J","K","L","M",
               "N","O","P","Q","R","S","T","U","V","W","X","Y","Z">>
LowerCase == <<"a","b","c","d","e","f","g","h","i","j","k","l","m",
               "n","o","p","q","r","s","t","u","v","w","x","y","z">>
LowerChar(c) ==
  IF \E i \in 1..26 : UpperCase[i] = c
  THEN LowerCase[CHOOSE i \in 1..26 : UpperCase[i] = c] ELSE c
Lower(s) == [i \in 1..Len(s) |-> LowerChar(s[i])]

\* the classification the claim describes
ArchiveLike(name) ==
  \/ EndsWith(Lower(name), <<".","z","i","p">>)
  \/ EndsWith(name, <<"p","l","a","y">>)

\* C9: a file is given to extract_file exactly when its name ends in .zip in
\* any letter case or ends in play; every other file is copied into the
\* payload directory.
C9_ClassificationBySuffix ==
  \A i \in DOMAIN log :
     /\ log[i].op = "extract" => ArchiveLike(log[i].name)
     /\ log[i].op = "copy" => ~ArchiveLike(log[i].name)

\* the start just made extracted an archive without error
ExtractedNow ==
  /\ last = "start"
  /\ raised \notin {"FetchError", "BadZipFile", "TypeError"}
  /\ Len(log) > Len(entry.log)
  /\ \E i \in (Len(entry.log) + 1)..Len(log) : log[i].op = "extract"

\* C10: after archives were extracted the payload directory holds no
\* dosbox.conf that came from an archive (only the one start writes from
\* dosbox_conf, if any); and acquisition for a title with one archive URL and
\* no payload directory ends with the payload directory existing.
C10_ArchiveConfigRemoved ==
  ExtractedNow =>
    /\ IsFile(gamedir, ConfName)
         => (Truthy(dosbox_conf) /\ gamedir.files[ConfName] = dosbox_conf.val)
    /\ (~entry.gamedir.exists /\ Len(entry.attrs.url.val) = 1) => gamedir.exists

\* a urlretrieve that returned: the loop goes on to extract or copy the file
FetchedAt(j) ==
  /\ log[j].op = "fetch"
  /\ j < Len(log)
  /\ log[j + 1].op \in {"extract", "copy"}
  /\ log[j + 1].name = FileNameOf(log[j].name)

\* the payload directory received the file of source URL u
Acquired(u) ==
  \E j \in DOMAIN log :
     log[j].op \in {"extract", "copy"} /\ log[j].name = FileNameOf(u)

\* C11: whatever failed on the way, fetched files stay in the storage
\* directory and are fetched once only, and the emulator is launched only on
\* a payload directory that received the file of every source URL.
C11_NoLaunchOnPartialPayload ==
  /\ \A j \in DOMAIN log :
        FetchedAt(j) => FileNameOf(log[j].name) \in DOMAIN cache
  /\ \A j, k \in DOMAIN log :
        (FetchedAt(j) /\ FetchedAt(k) /\ j < k)
          => FileNameOf(log[j].name) # FileNameOf(log[k].name)
  /\ (Launched /\ log # <<>>) => \A i \in DOMAIN url.val : Acquired(url.val[i])

\* ----------------------------------------- dosbox.py: the locator's steps
MacApp == "/Applications/dosbox.app/Contents/MacOS/DOSBox"
OpenA == "open -a DOSBox"
WinExe == "ProgramFiles(x86)/dosbox*/dosbox.exe"

\* variant: the candidate is returned without looking at the return code
try_path_Unchecked(h, path) == TRUE

\* lines 10-12: path --version ran and returned 0
try_path(h, path) ==
  CASE path = "dosbox" -> h.onPath
    [] path = MacApp -> h.macApp
    [] path = OpenA -> h.openA
    [] path = WinExe -> h.winExe

\* one try block: return the candidate, or pass on to the next block
Probe(l, path, next) ==
  IF try_path(host, path)
  THEN [l EXCEPT !.tried = Append(@, path), !.result = path, !.pc = "returned"]
  ELSE [l EXCEPT !.tried = Append(@, path), !.pc = next]

LocatorFrame ==
  /\ last' = "locate"
  /\ UNCHANGED <<meta, attrs, disk, sess, saves, sets, host, hist>>

\* lines 15-18
TryDosbox ==
  /\ locator.pc = "dosbox"
  /\ locator' = Probe(locator, "dosbox", "macos")
  /\ LocatorFrame

\* lines 19-23
TryMacApp ==
  /\ locator.pc = "macos"
  /\ locator' = Probe(locator, MacApp, "open")
  /\ LocatorFrame

\* lines 24-28
TryOpenA ==
  /\ locator.pc = "open"
  /\ locator' = Probe(locator, OpenA, "windows")
  /\ LocatorFrame

\* lines 29-35: os.environ[...] or glob(...)[0] may raise before try_path runs
TryWindows ==
  /\ locator.pc = "windows"
  /\ locator' = IF host.programFiles /\ host.globbed
                THEN Probe(locator, WinExe, "explain")
                ELSE [locator EXCEPT !.pc = "explain"]
  /\ LocatorFrame

\* lines 37-47: print(error) writes nothing without a stdout; input() returns
\* only with a stdout and a stdin, and then sys.exit(1) runs; when it raises,
\* DOSBoxNotFound(error) is raised
Explain ==
  /\ locator.pc = "explain"
  /\ locator' = IF host.stdout /\ host.stdin
                THEN [locator EXCEPT !.printed = TRUE, !.pc = "exited"]
                ELSE [locator EXCEPT !.printed = host.stdout,
                                     !.inException = TRUE, !.pc = "raised"]
  /\ LocatorFrame

LocateDoc ==
  DocOf([NoKeys EXCEPT !["title"] = Some(<<"T">>),
                       !["emulator_start"] = Some(ExeName)])

\* the interpreter is about to import ialauncher.game (line 11 of game.py)
LocateInit ==
  /\ host \in Hosts
  /\ locator = NotLocated
  /\ doc = LocateDoc
  /\ game = "none"
  /\ config = NoKeys
  /\ title = None /\ year = None /\ emulator_start = None
  /\ dosbox_conf = None /\ url = None
  /\ gamedir = Dir([n \in {ExeName} |-> <<"g">>])
  /\ cache = NoFiles
  /\ pc = "idle" /\ autorun = FALSE /\ launches = <<>> /\ log = <<>>
  /\ raised = "none" /\ starts = 0 /\ cwd = "other"
  /\ saves = 0 /\ sets = 0
  /\ entry = NoEntry
  /\ last = "init"
  /\ hist = [loaded |-> CurrentAttrs, edited |-> FALSE]

LocateNext ==
  \/ TryDosbox
  \/ TryMacApp
  \/ TryOpenA
  \/ TryWindows
  \/ Explain
  \/ Construct
  \/ StartAutorun
  \/ StartInteractive

LocateSpec == LocateInit /\ [][LocateNext]_vars

ProbeOrder == <<"dosbox", MacApp, OpenA, WinExe>>

\* the candidate can be run on this host
Usable(path) ==
  \/ path = "dosbox" /\ host.onPath
  \/ path = MacApp /\ host.macApp
  \/ path = OpenA /\ host.openA
  \/ path = WinExe /\ host.programFiles /\ host.globbed /\ host.winExe

\* C12: the candidates are tried in the order dosbox, macOS application,
\* open -a, Windows executable; the one returned is the first that runs,
\* never one that failed; when none runs nothing is returned, the explanation
\* is shown (printed or carried by the exception) and the process exits or
\* raises; no Game is constructed or started unless a command was returned.
C12_LocatorFirstUsableOrFatal ==
  /\ \A i \in DOMAIN locator.tried : locator.tried[i] = ProbeOrder[i]
  /\ locator.pc = "returned"
       => /\ locator.tried # <<>>
          /\ locator.result = locator.tried[Len(locator.tried)]
          /\ Usable(locator.result)
          /\ \A i \in 1..(Len(locator.tried) - 1) : ~Usable(locator.tried[i])
  /\ locator.pc \in {"exited", "raised"}
       => /\ \A i \in 1..4 : ~Usable(ProbeOrder[i])
          /\ locator.result = ""
          /\ locator.printed \/ locator.inException
  /\ (\A i \in 1..4 : ~Usable(ProbeOrder[i])) => locator.pc # "returned"
  /\ (game # "none" \/ starts > 0) => locator.pc = "returned"
  /\ \A i \in DOMAIN launches : launches[i].exe = locator.result

C12_Witness ==
  /\ locator.pc = "raised" /\ Len(locator.tried) = 4
  /\ ~locator.printed /\ locator.inException


\* the command script among the files of a directory, if there is one
BatOf(files) == IF BatName \in DOMAIN files THEN Some(files[BatName]) ELSE None

\* C13: an autorun start of a title with a boot command: if the boot command
\* names a file present in the payload directory, that file is the run target
\* and dosbox.bat is as it was before the start (absent or with the same
\* contents); otherwise dosbox.bat holds the preamble "@echo off\ncls\n"
\* followed by the boot command, and dosbox.bat is the run target.
C13_AutorunScriptOrExecutable ==
  (Launched /\ FinalOf(entry)) =>
    LET rt == LastLaunch.argv[1].path
        cmd == entry.attrs.emulator_start.val
    IN  IF cmd \in DOMAIN LastLaunch.files
        THEN /\ rt = cmd
             /\ BatOf(LastLaunch.files) = BatOf(entry.gamedir.files)
             /\ BatOf(gamedir.files) = BatOf(entry.gamedir.files)
        ELSE /\ rt = BatName
             /\ BatOf(LastLaunch.files) = Some(Preamble \o cmd)
             /\ BatOf(gamedir.files) = Some(Preamble \o cmd)

C13_Witness ==
  /\ Launched /\ FinalOf(entry)
  /\ entry.attrs.emulator_start.val \in DOMAIN LastLaunch.files
  /\ LastLaunch.argv[1] = Path(entry.attrs.emulator_start.val)
  /\ BatOf(entry.gamedir.files) = None
  /\ BatOf(gamedir.files) = None

\* C14: an interactive start of a title with a boot command: when the emulator
\* is launched dosbox.bat holds exactly the boot command, nothing put before
\* it, whatever the script held before, and the run target is ".".
C14_InteractiveScriptIsBootCommand ==
  (Launched /\ ~entry.req /\ Truthy(entry.attrs.emulator_start)) =>
    /\ BatOf(LastLaunch.files) = Some(entry.attrs.emulator_start.val)
    /\ LastLaunch.argv[1] = Path(Dot)
    /\ pc = "waiting"

C14_Witness ==
  /\ Launched /\ ~entry.req /\ Truthy(entry.attrs.emulator_start)
  /\ BatOf(entry.gamedir.files) = Some(Preamble \o entry.attrs.emulator_start.val)
  /\ BatOf(LastLaunch.files) = Some(entry.attrs.emulator_start.val)


\* C15: in an interactive start the files are written before the launch (the
\* launch sees dosbox.bat, and dosbox.conf with the contents of dosbox_conf when
\* that is set), start() then stays blocked until the child has ended, and
\* emulator_start, the saved metadata and the save count change only in the
\* step that follows the child's end; while the child runs nothing is read back
\* and start() does not return.
C15_InteractiveOrder ==
  [][ /\ (last' = "start" /\ raised' = "none" /\ ~autorun')
         => /\ pc' = "waiting"
            /\ launches' = Append(launches, launches'[Len(launches')])
            /\ launches'[Len(launches')].files = gamedir'.files
            /\ BatName \in DOMAIN gamedir'.files
            /\ Truthy(dosbox_conf)
                 => (ConfName \in DOMAIN gamedir'.files
                     /\ gamedir'.files[ConfName] = dosbox_conf.val)
            /\ emulator_start' = emulator_start /\ doc' = doc /\ saves' = saves
      /\ pc = "waiting"
         => /\ pc' \in {"waiting", "exited"}
            /\ emulator_start' = emulator_start
            /\ doc' = doc /\ config' = config /\ saves' = saves
            /\ launches' = launches
      /\ (pc = "waiting" /\ pc' = "exited") => last' = "exit"
      /\ (emulator_start' # emulator_start \/ doc' # doc \/ saves' # saves)
         => (pc = "exited" /\ pc' = "idle" /\ last' = "capture")
      /\ last' = "capture" => (pc = "exited" /\ ~autorun)
    ]_vars

C15_Witness ==
  /\ last = "capture" /\ pc = "idle" /\ saves > 0 /\ hist.edited
  /\ ~entry.req
  /\ emulator_start = ScriptAtExit
  /\ emulator_start # entry.attrs.emulator_start


\* the events the latest step appended to the log
NewEvents == SubSeq(log', Len(log) + 1, Len(log'))

\* C16: a start in which the fetch of a URL fails or an archive cannot be
\* extracted ends with that error raised to its caller: the failing operation
\* is the last one performed, no URL is fetched twice, neither dosbox.bat nor
\* dosbox.conf is written, no emulator is launched, and neither the attributes
\* nor the saved metadata change.
C16_AcquisitionErrorPropagates ==
  [][ (last' = "start" /\ raised' \in {"FetchError", "BadZipFile"})
        => /\ pc' = "idle"
           /\ launches' = launches
           /\ saves' = saves /\ doc' = doc /\ config' = config
           /\ emulator_start' = emulator_start
           /\ ~gamedir.exists
           /\ BatName \notin DOMAIN gamedir'.files
           /\ ConfName \notin DOMAIN gamedir'.files
           /\ NewEvents # <<>>
           /\ NewEvents[Len(NewEvents)].op
                = (IF raised' = "FetchError" THEN "fetch" ELSE "extract")
           /\ \A j, k \in DOMAIN NewEvents :
                (NewEvents[j].op = "fetch" /\ NewEvents[j] = NewEvents[k]) => j = k
    ]_vars

C16_Witness ==
  /\ last = "start" /\ raised = "FetchError"
  /\ gamedir.exists /\ launches = <<>> /\ saves = 0
  /\ Len(log) >= 3 /\ log[Len(log)].op = "fetch"


\* C17: a start of a title without boot command creates dosbox.bat only when
\* there is none, and creates it empty; an existing dosbox.bat reaches the
\* launch with the contents it had before the start.
C17_PlaceholderIsEmpty ==
  (Launched /\ ~Truthy(entry.attrs.emulator_start)) =>
    IF BatOf(entry.gamedir.files) = None
    THEN BatOf(LastLaunch.files) = Some(<<>>)
    ELSE BatOf(LastLaunch.files) = BatOf(entry.gamedir.files)


ConfOf(files) == IF ConfName \in DOMAIN files THEN Some(files[ConfName]) ELSE None
LoadsConf(argv) ==
  \E i \in 1..(Len(argv) - 2) :
    /\ argv[i] = Flag("-userconf")
    /\ argv[i + 1] = Flag("-conf")
    /\ argv[i + 2] = Path(ConfName)

\* C18: at every launch, dosbox.conf holds exactly dosbox_conf and the
\* arguments -userconf -conf dosbox.conf are passed when dosbox_conf is set
\* (non-empty); when it is not set the arguments are not passed and start has
\* not written dosbox.conf (it is absent, or as it was before the start).
C18_ConfigWrittenIffSet ==
  Launched =>
    /\ LoadsConf(LastLaunch.argv) <=> Truthy(entry.attrs.dosbox_conf)
    /\ Truthy(entry.attrs.dosbox_conf)
         => /\ ConfOf(LastLaunch.files) = Some(entry.attrs.dosbox_conf.val)
            /\ ConfOf(gamedir.files) = Some(entry.attrs.dosbox_conf.val)
    /\ ~Truthy(entry.attrs.dosbox_conf)
         => /\ ConfOf(LastLaunch.files) = ConfOf(entry.gamedir.files)
            /\ ConfOf(gamedir.files) = ConfOf(entry.gamedir.files)
    /\ dosbox_conf = entry.attrs.dosbox_conf

\* the payload is extracted in this start from an archive that carries its own
\* dosbox.conf, and dosbox_conf is set
C18_Witness ==
  /\ Launched /\ Truthy(dosbox_conf)
  /\ ~entry.gamedir.exists
  /\ \E j \in DOMAIN log : log[j] = Event("extract", FileNameOf(UrlA))
  /\ ConfOf(LastLaunch.files) = dosbox_conf
  /\ LoadsConf(LastLaunch.argv)


\* C19: as long as the user has not edited or deleted dosbox.bat, emulator_start
\* is, in memory and in the saved metadata, what it was when the record was
\* loaded, whatever starts have been made.
C19_UntouchedSessionKeepsBootCommand ==
  ~hist.edited =>
    /\ emulator_start = hist.loaded.emulator_start
    /\ Persisted.emulator_start = hist.loaded.emulator_start


FrameFields == {"title", "year", "dosbox_conf", "url"}

\* C20: whatever starts and captures have happened, title, year, dosbox_conf
\* and url (its entries and their order) are, in memory and as read back from
\* the saved metadata, what they were when the record was loaded.
C20_StartChangesOnlyBootCommand ==
  \A f \in FrameFields :
    /\ CurrentAttrs[f] = hist.loaded[f]
    /\ Persisted[f] = hist.loaded[f]

C20_Witness ==
  /\ last = "capture" /\ saves >= 1
  /\ doc # entry.doc
  /\ url.some /\ Len(url.val) = 2 /\ url.val[1] # url.val[2]
  /\ Truthy(dosbox_conf) /\ Truthy(title)

====
